---- MODULE Spec2Model ----
(***************************************************************************)
(* Model of the mongodb_stream Benthos input (src/lib/plugin.go).          *)
(*                                                                         *)
(* One mongoStreamInput, its background pump goroutine (takeSnapshot /     *)
(* iterateCursor / iterateChangeStream / processMessage), one consumer     *)
(* calling Read and the ack functions it returns, and a host calling       *)
(* Connect and Close.  The MongoDB driver is the environment: what Find,   *)
(* Watch, Next, Decode and Disconnect answer is chosen nondeterministically *)
(* among the answers the driver can give, and other clients commit changes *)
(* to the collection.  A Go panic ends the whole process: it is recorded   *)
(* in `panic` and no step is possible afterwards.                          *)
(***************************************************************************)
EXTENDS Integers, Sequences, FiniteSets, TLC

(* ---------------------------------------------------------------------- *)
(* Bounds                                                                  *)
(* ---------------------------------------------------------------------- *)

\* Total number of documents scanned and changes committed in one run.
MaxRecords == 3

\* Number of Close calls the host makes in one run.
MaxCloses == 2

(* ---------------------------------------------------------------------- *)
(* Dynamically typed values (interface{} / bson.M)                         *)
(* ---------------------------------------------------------------------- *)

\* A leaf value carries its Go dynamic type; a document (bson.M) is a
\* function from field names to values.
Str(s) == [type |-> "string", val |-> s]

I32(s) == [type |-> "int32", val |-> s]

\* The nil interface value: what a map lookup of a missing key yields.
Nil == [type |-> "nil", val |-> ""]

IsLeaf(v) == DOMAIN v = {"type", "val"}

\* data[k] on a Go map: the zero value (nil) when the key is missing.
Lookup(data, k) == IF k \in DOMAIN data THEN data[k] ELSE Nil

\* The "operation, ok := data[k]" form: whether the key is present.
HasKey(data, k) == k \in DOMAIN data

\* Field names in the order encoding/json writes map keys (sorted).
FieldOrder ==
  <<"_id", "collection", "database", "documentKey", "fullDocument",
    "name", "operationType", "x">>

\* json.Marshal of a value: strings quoted, numbers bare, nil as null, maps
\* as objects with their keys sorted.
RECURSIVE Marshal(_)
RECURSIVE MarshalFields(_, _, _)
MarshalFields(doc, i, first) ==
  IF i > Len(FieldOrder) THEN ""
  ELSE IF FieldOrder[i] \in DOMAIN doc
       THEN (IF first THEN "" ELSE ",")
            \o "\"" \o FieldOrder[i] \o "\":" \o Marshal(doc[FieldOrder[i]])
            \o MarshalFields(doc, i + 1, FALSE)
       ELSE MarshalFields(doc, i + 1, first)

Marshal(v) ==
  IF IsLeaf(v)
  THEN CASE v.type = "string" -> "\"" \o v.val \o "\""
         [] v.type = "nil"    -> "null"
         [] OTHER             -> v.val
  ELSE "{" \o MarshalFields(v, 1, TRUE) \o "}"

(* ---------------------------------------------------------------------- *)
(* Raw records the database can hand out                                   *)
(* ---------------------------------------------------------------------- *)

DocPlain == [_id |-> I32("5"), name |-> Str("a")]

DocShadow ==
  [_id |-> I32("1"), database |-> Str("evil"), collection |-> Str("evil")]

\* A stored document that happens to have a field called operationType,
\* holding a number.
DocIntOp == [_id |-> I32("2"), operationType |-> I32("7")]

EvUpdate ==
  [operationType |-> Str("update"),
   documentKey   |-> [_id |-> I32("1")],
   fullDocument  |-> [_id |-> I32("1"), x |-> I32("2")]]

EvDelete ==
  [operationType |-> Str("delete"),
   documentKey   |-> [_id |-> I32("1")],
   fullDocument  |-> [_id |-> I32("1"), x |-> I32("9")]]

\* An operation type outside insert/update/replace/delete, with neither a
\* fullDocument nor a documentKey.
EvDrop == [operationType |-> Str("drop")]

EvInsertShadow ==
  [operationType |-> Str("insert"),
   database      |-> Str("evil"),
   collection    |-> Str("evil"),
   documentKey   |-> [_id |-> I32("5")],
   fullDocument  |-> DocPlain]

\* Envelopes a change stream can return.
StreamRecords == {EvUpdate, EvDelete, EvDrop, EvInsertShadow}

\* Documents a collection scan can return.
CursorRecords == {DocPlain, DocShadow, DocIntOp}

RawRecords == CursorRecords \cup StreamRecords

\* Configured names (conf.FieldString("database") / ("collection")).
Databases == {"db"}

Collections == {"c"}

(* ---------------------------------------------------------------------- *)
(* State                                                                   *)
(* ---------------------------------------------------------------------- *)

VARIABLES
  database,        \* m.database
  collection,      \* m.collection
  streamSnapshot,  \* m.streamSnapshot
  client,          \* m.client: "nil", or the driver state of the client
  cancelFunc,      \* m.cancelFunc: "nil" or "set"
  context,         \* m.context: "nil", "active" or "cancelled"
  stream,          \* m.stream: the events a blocked sender is offering
  cursor,          \* the snapshot cursor: "nil", "open", "closed"
  changeStream,    \* the change stream: "nil", "open", "closed"
  pumpPc,          \* where the pump goroutine is
  readPc,          \* where the consumer is: "idle" or blocked in Read
  readResult,      \* what the last Read returned
  closeCalls,      \* number of Close calls made
  closeErr,        \* what the last Close returned
  disconnects,     \* number of client.Disconnect calls made
  panic,           \* "none", or the place the process panicked
  fetched,         \* history: records the pump decoded, with their source
  pushed,          \* history: events the pump offered on m.stream
  delivered,       \* history: messages returned by Read, with the event
  lastAck,         \* the last call of an ack function Read returned
  oplog            \* changes committed to the collection since Connect

confVars == <<database, collection, streamSnapshot>>

connVars == <<client, cancelFunc, context>>

closeVars == <<closeCalls, closeErr, disconnects>>

readVars == <<readPc, readResult, delivered>>

pumpVars == <<stream, cursor, changeStream, pumpPc, fetched, pushed>>

ackVars == <<lastAck>>

envVars == <<oplog>>

vars ==
  <<database, collection, streamSnapshot, client, cancelFunc, context,
    stream, cursor, changeStream, pumpPc, readPc, readResult, closeCalls,
    closeErr, disconnects, panic, fetched, pushed, delivered, lastAck,
    oplog>>

\* A process in which a panic is recovered and execution goes on.
Running_Recovered == TRUE

\* No goroutine has panicked: a panic ends the process.
Running == panic = "none"

(* ---------------------------------------------------------------------- *)
(* newMongoStreamInput                                                     *)
(* ---------------------------------------------------------------------- *)

Init ==
  /\ database \in Databases
  /\ collection \in Collections
  /\ streamSnapshot \in BOOLEAN
  /\ client = "nil"
  /\ cancelFunc = "nil"
  /\ context = "nil"
  /\ stream = <<>>
  /\ cursor = "nil"
  /\ changeStream = "nil"
  /\ pumpPc = "none"
  /\ readPc = "idle"
  /\ readResult = "none"
  /\ closeCalls = 0
  /\ closeErr = "none"
  /\ disconnects = 0
  /\ panic = "none"
  /\ fetched = <<>>
  /\ pushed = <<>>
  /\ delivered = <<>>
  /\ lastAck = [err |-> "none", result |-> "none"]
  /\ oplog = <<>>

(* ---------------------------------------------------------------------- *)
(* processMessage                                                          *)
(* ---------------------------------------------------------------------- *)

\* processMessage with the delete case reading fullDocument.
processMessage_DeleteFull(data, db, coll) ==
  IF HasKey(data, "operationType")
  THEN [action     |-> data["operationType"],
        database   |-> Str(db),
        collection |-> Str(coll),
        data       |-> Lookup(data, "fullDocument")]
  ELSE [action     |-> Str("insert"),
        database   |-> Str(db),
        collection |-> Str(coll),
        data       |-> data]

\* processMessage with database and collection read from the record when the
\* record has such fields.
processMessage_RawNames(data, db, coll) ==
  LET dbv == IF HasKey(data, "database") THEN data["database"] ELSE Str(db)
      cv  == IF HasKey(data, "collection") THEN data["collection"]
             ELSE Str(coll)
  IN IF HasKey(data, "operationType")
     THEN IF data["operationType"] = Str("delete")
          THEN [action     |-> data["operationType"],
                database   |-> dbv,
                collection |-> cv,
                data       |-> Lookup(data, "documentKey")]
          ELSE [action     |-> data["operationType"],
                database   |-> dbv,
                collection |-> cv,
                data       |-> Lookup(data, "fullDocument")]
     ELSE [action     |-> Str("insert"),
           database   |-> dbv,
           collection |-> cv,
           data       |-> data]

\* The event map processMessage builds from a decoded record.
processMessage(data, db, coll) ==
  IF HasKey(data, "operationType")
  THEN IF data["operationType"] = Str("delete")
       THEN [action     |-> data["operationType"],
             database   |-> Str(db),
             collection |-> Str(coll),
             data       |-> Lookup(data, "documentKey")]
       ELSE [action     |-> data["operationType"],
             database   |-> Str(db),
             collection |-> Str(coll),
             data       |-> Lookup(data, "fullDocument")]
  ELSE [action     |-> Str("insert"),
        database   |-> Str(db),
        collection |-> Str(coll),
        data       |-> data]

(* ---------------------------------------------------------------------- *)
(* The driver, as the pump sees it                                         *)
(* ---------------------------------------------------------------------- *)

\* Find and Watch need a live client and a context that is not cancelled;
\* otherwise they return an error.  They may also fail for reasons of the
\* deployment (network, authorisation).
CanOpen(ctx) == client = "connected" /\ ctx # "cancelled"

\* The records of a history that came from the cursor, from the stream.
FromCursor(f) == f.src = "cursor"

FromStream(f) == f.src = "stream"

\* A change the open change stream has captured.
Captured(c) == c.by = "tail"

\* The changes the change stream has captured, in commit order; the pump
\* has been handed the first Len(SelectSeq(fetched, FromStream)) of them.
TailChanges == SelectSeq(oplog, Captured)

\* The change stream holds a captured change the pump has not fetched.
PendingChange ==
  Len(SelectSeq(fetched, FromStream)) < Len(TailChanges)

\* The records spent so far: documents scanned and changes committed.
Spent == Len(SelectSeq(fetched, FromCursor)) + Len(oplog)

\* A send on a buffered channel: the pump goes on with its loop at once.
Blocked_Buffered(src) ==
  IF src = "cursor" THEN "cursor.Next" ELSE "stream.Next"

\* "m.stream <- event" on the unbuffered channel made by
\* newMongoStreamInput: the pump stays in the send until a Read receives.
Blocked(src) == IF src = "cursor" THEN "cursor.send" ELSE "stream.send"

\* The entry the pump leaves on m.stream: the event, with its origin kept
\* alongside as history.
Offer(src, raw) ==
  [event |-> processMessage(raw, database, collection),
   src   |-> src,
   raw   |-> raw]

(* ---------------------------------------------------------------------- *)
(* Connect                                                                 *)
(* ---------------------------------------------------------------------- *)

\* The mode test that ignores the flag and always takes the snapshot.
SnapshotFirst_Always == TRUE

\* "if m.streamSnapshot": snapshot-then-tail, else tail-only.
SnapshotFirst == streamSnapshot

\* The host calls Connect once.  connectErr and watchErr are the driver's
\* answers to mongo.Connect and, in tail-only mode, to collection.Watch.
Connect ==
  /\ Running
  /\ client = "nil"
  /\ context = "nil"
  /\ \E connectErr \in BOOLEAN, watchErr \in BOOLEAN :
       IF connectErr
       THEN /\ panic' = "mongo.Connect"
            /\ UNCHANGED <<connVars, pumpVars>>
       ELSE /\ client' = "connected"
            /\ context' = "active"
            /\ cancelFunc' = "set"
            /\ IF SnapshotFirst
               THEN /\ pumpPc' = "takeSnapshot"
                    /\ UNCHANGED <<panic, changeStream>>
               ELSE IF watchErr
                    THEN /\ panic' = "Connect.Watch"
                         /\ UNCHANGED <<pumpPc, changeStream>>
                    ELSE /\ changeStream' = "open"
                         /\ pumpPc' = "stream.Next"
                         /\ UNCHANGED panic
            /\ UNCHANGED <<stream, cursor, fetched, pushed>>
  /\ UNCHANGED <<confVars, ackVars, envVars, closeVars, readVars>>

(* ---------------------------------------------------------------------- *)
(* takeSnapshot                                                            *)
(* ---------------------------------------------------------------------- *)

\* c.Find(m.context, bson.D{}); an error panics.
takeSnapshotFind ==
  /\ Running
  /\ pumpPc = "takeSnapshot"
  /\ \E err \in BOOLEAN :
       /\ (~CanOpen(context)) => err
       /\ IF err
          THEN /\ panic' = "takeSnapshot.Find"
               /\ UNCHANGED <<cursor, pumpPc>>
          ELSE /\ cursor' = "open"
               /\ pumpPc' = "cursor.Next"
               /\ UNCHANGED panic
  /\ UNCHANGED <<confVars, ackVars, envVars, connVars, closeVars, readVars,
                 stream, changeStream, fetched, pushed>>

\* c.Watch(m.context, ...) once iterateCursor has returned; an error panics.
takeSnapshotWatch ==
  /\ Running
  /\ pumpPc = "takeSnapshot.Watch"
  /\ \E err \in BOOLEAN :
       /\ (~CanOpen(context)) => err
       /\ IF err
          THEN /\ panic' = "takeSnapshot.Watch"
               /\ UNCHANGED <<changeStream, pumpPc>>
          ELSE /\ changeStream' = "open"
               /\ pumpPc' = "stream.Next"
               /\ UNCHANGED panic
  /\ UNCHANGED <<confVars, ackVars, envVars, connVars, closeVars, readVars,
                 stream, cursor, fetched, pushed>>

(* ---------------------------------------------------------------------- *)
(* iterateCursor                                                           *)
(* ---------------------------------------------------------------------- *)

\* One turn of the loop: cursor.Next, cursor.Decode, processMessage up to
\* its channel send; or the end of the loop and the cursor.Err check.  The
\* deferred cursor.Close runs when the function is left, by return or panic.
iterateCursor ==
  /\ Running
  /\ pumpPc = "cursor.Next"
  /\ \/ \E raw \in CursorRecords :
          /\ Spent < MaxRecords
          /\ fetched' = Append(fetched, [src |-> "cursor", raw |-> raw])
          /\ stream' = Append(stream, Offer("cursor", raw))
          /\ pushed' = Append(pushed, Offer("cursor", raw).event)
          /\ pumpPc' = Blocked("cursor")
          /\ UNCHANGED <<cursor, panic>>
     \/ /\ panic' = "cursor.Decode"
        /\ cursor' = "closed"
        /\ UNCHANGED <<stream, pumpPc, fetched, pushed>>
     \/ /\ cursor' = "closed"
        /\ pumpPc' = "takeSnapshot.Watch"
        /\ UNCHANGED <<stream, panic, fetched, pushed>>
     \/ /\ panic' = "cursor.Err"
        /\ cursor' = "closed"
        /\ UNCHANGED <<stream, pumpPc, fetched, pushed>>
  /\ UNCHANGED <<confVars, ackVars, envVars, connVars, closeVars, readVars, changeStream>>

(* ---------------------------------------------------------------------- *)
(* iterateChangeStream                                                     *)
(* ---------------------------------------------------------------------- *)

\* One turn of the loop: stream.Next handing out the next captured change,
\* stream.Decode, processMessage up to its channel send; or stream.Next
\* returning false (an error of the stream,
\* among them the client having been disconnected), on which the function
\* returns without looking at the error.
iterateChangeStream ==
  /\ Running
  /\ pumpPc = "stream.Next"
  /\ \/ \E raw \in {TailChanges[i].raw :
                        i \in {Len(SelectSeq(fetched, FromStream)) + 1}
                              \cap DOMAIN TailChanges} :
          /\ fetched' = Append(fetched, [src |-> "stream", raw |-> raw])
          /\ stream' = Append(stream, Offer("stream", raw))
          /\ pushed' = Append(pushed, Offer("stream", raw).event)
          /\ pumpPc' = Blocked("stream")
          /\ UNCHANGED <<changeStream, panic>>
     \/ /\ panic' = "stream.Decode"
        /\ changeStream' = "closed"
        /\ UNCHANGED <<stream, pumpPc, fetched, pushed>>
     \/ /\ changeStream' = "closed"
        /\ pumpPc' = "done"
        /\ UNCHANGED <<stream, panic, fetched, pushed>>
  /\ UNCHANGED <<confVars, ackVars, envVars, connVars, closeVars, readVars, cursor>>

(* ---------------------------------------------------------------------- *)
(* Read                                                                    *)
(* ---------------------------------------------------------------------- *)

\* The message Read builds from a received event: the body is the JSON of
\* event["data"], the metadata come from the other three entries.
Message(event) ==
  [body |-> Marshal(event.data),
   meta |-> [table  |-> event.collection.val,
             schema |-> event.database.val,
             event  |-> event.action.val]]

\* The three ".(string)" assertions of Read: each panics on a value that is
\* not a string.
AssertsString(event) ==
  /\ event.collection.type = "string"
  /\ event.database.type = "string"
  /\ event.action.type = "string"

\* The continuation of a pump that handles one change and returns.
AfterSend_Once(pc) == IF pc = "cursor.send" THEN "cursor.Next" ELSE "done"

\* The continuation that always enters the change-stream loop.
AfterSend_ToStream(pc) == "stream.Next"

\* The continuation that resumes the other loop.
AfterSend_Swapped(pc) ==
  IF pc = "cursor.send" THEN "stream.Next" ELSE "cursor.Next"

\* The loop the pump returns to when its send completes.
AfterSend(pc) == IF pc = "cursor.send" THEN "cursor.Next" ELSE "stream.Next"

\* A receive that leaves the event on the channel.
Receive_Peek(ch) == ch

\* "<-m.stream": the channel once its first offered event has been taken.
Receive(ch) == Tail(ch)

\* The consumer enters Read and blocks on "<-m.stream".
ReadCall ==
  /\ Running
  /\ readPc = "idle"
  /\ readPc' = "recv"
  /\ readResult' = "none"
  /\ UNCHANGED <<confVars, ackVars, envVars, connVars, closeVars, pumpVars, panic, delivered>>

\* The unbuffered channel hands the pump's event to the blocked Read: the
\* pump's send completes and Read runs to its return (or to a panic).
ReadRecv ==
  /\ Running
  /\ readPc = "recv"
  /\ stream # <<>>
  /\ stream' = Receive(stream)
  /\ pumpPc' = AfterSend(pumpPc)
  /\ IF AssertsString(Head(stream).event)
     THEN /\ delivered' = Append(delivered,
                                 [msg |-> Message(Head(stream).event),
                                  src |-> Head(stream).src,
                                  raw |-> Head(stream).raw])
          /\ readPc' = "idle"
          /\ readResult' = "message"
          /\ UNCHANGED panic
     ELSE /\ panic' = "Read"
          /\ UNCHANGED <<readVars>>
  /\ UNCHANGED <<confVars, ackVars, envVars, connVars, closeVars, cursor, changeStream,
                 fetched, pushed>>

(* ---------------------------------------------------------------------- *)
(* Close                                                                   *)
(* ---------------------------------------------------------------------- *)

\* client.Disconnect: nil the first time, ErrClientDisconnected on a client
\* that is already disconnected.
Disconnect(c) == IF c = "connected" THEN "nil" ELSE "ErrClientDisconnected"

\* With a client, Close returns what Disconnect returns and does nothing
\* else; without one it calls m.cancelFunc, a nil function value unless
\* Connect has set it.
Close ==
  /\ Running
  /\ closeCalls < MaxCloses
  /\ closeCalls' = closeCalls + 1
  /\ IF client # "nil"
     THEN /\ disconnects' = disconnects + 1
          /\ closeErr' = Disconnect(client)
          /\ client' = "disconnected"
          /\ UNCHANGED <<cancelFunc, context, panic>>
     ELSE IF cancelFunc = "nil"
          THEN /\ panic' = "Close.cancelFunc"
               /\ UNCHANGED <<connVars, closeErr, disconnects>>
          ELSE /\ context' = "cancelled"
               /\ closeErr' = "nil"
               /\ UNCHANGED <<client, cancelFunc, disconnects, panic>>
  /\ UNCHANGED <<confVars, ackVars, envVars, pumpVars, readVars>>

(* ---------------------------------------------------------------------- *)
(* The acknowledgement function Read returns                               *)
(* ---------------------------------------------------------------------- *)

\* An ack function that hands a downstream error back.
AckFunc_Propagate(err) == err

\* "func(ctx, err) error { return nil }".
AckFunc(err) == "nil"

\* The host calls the ack function of a returned message, with nil or with
\* the error of a failed delivery.
Ack ==
  /\ Running
  /\ delivered # <<>>
  /\ \E err \in {"nil", "error"} :
       lastAck' = [err |-> err, result |-> AckFunc(err)]
  /\ UNCHANGED <<confVars, connVars, closeVars, readVars, pumpVars, panic,
                 envVars>>

(* ---------------------------------------------------------------------- *)
(* The collection                                                          *)
(* ---------------------------------------------------------------------- *)

\* What captures a change committed now.  An open change stream captures
\* it.  While the cursor is open the scan returns the changed document if
\* it has not passed it yet (ahead), else nothing does; between the end of
\* the scan and Watch nothing does: Watch is called with no resume token and
\* no start time, so the stream begins at its own activation.  Once the
\* stream is closed the change is lost.
CapturedBy(ahead) ==
  CASE changeStream = "open"               -> "tail"
    [] changeStream = "closed"             -> "lost"
    [] cursor = "open" /\ ahead            -> "scan"
    [] OTHER                               -> "gap"

\* Another client commits a change to the collection while the connector is
\* connected and has begun to read (after Find in snapshot-then-tail mode).
\* The content of a change no stream captures is never read by the
\* connector, so one content stands for all of them.
Commit ==
  /\ Running
  /\ client = "connected"
  /\ pumpPc \notin {"none", "takeSnapshot"}
  /\ Spent < MaxRecords
  /\ \E raw \in StreamRecords, ahead \in BOOLEAN :
       /\ (CapturedBy(ahead) # "tail") => raw = EvUpdate
       /\ oplog' = Append(oplog, [raw |-> raw, by |-> CapturedBy(ahead)])
  /\ UNCHANGED <<confVars, connVars, closeVars, readVars, pumpVars, panic,
                 ackVars>>

(* ---------------------------------------------------------------------- *)
(* Specifications                                                          *)
(* ---------------------------------------------------------------------- *)

Next ==
  \/ Connect
  \/ takeSnapshotFind
  \/ iterateCursor
  \/ takeSnapshotWatch
  \/ iterateChangeStream
  \/ ReadCall
  \/ ReadRecv
  \/ Close
  \/ Ack
  \/ Commit

Spec == Init /\ [][Next]_vars

TypeOK ==
  /\ client \in {"nil", "connected", "disconnected"}
  /\ cancelFunc \in {"nil", "set"}
  /\ context \in {"nil", "active", "cancelled"}
  /\ Len(stream) <= 1
  /\ cursor \in {"nil", "open", "closed"}
  /\ changeStream \in {"nil", "open", "closed"}
  /\ pumpPc \in {"none", "takeSnapshot", "cursor.Next", "cursor.send",
                 "takeSnapshot.Watch", "stream.Next", "stream.send", "done"}
  /\ readPc \in {"idle", "recv"}
  /\ readResult \in {"none", "message"}
  /\ closeCalls \in 0..MaxCloses
  /\ Len(fetched) <= MaxRecords
  /\ Len(oplog) <= MaxRecords
  /\ \A i \in 1..Len(oplog) : oplog[i].by \in {"scan", "gap", "tail", "lost"}
  /\ lastAck.result \in {"none", "nil"}

\* The Go scheduler runs a runnable goroutine eventually, so the pump's steps
\* and the channel hand-over are weakly fair.  cursor.Next on a finite scan
\* returns; stream.Next on an idle change stream may block for ever, but it
\* returns once the client has been disconnected.  The host and the consumer
\* owe no call.
FairSpec ==
  /\ Spec
  /\ WF_vars(takeSnapshotFind)
  /\ WF_vars(iterateCursor)
  /\ WF_vars(takeSnapshotWatch)
  /\ WF_vars(client = "disconnected" /\ iterateChangeStream)
  /\ WF_vars(ReadRecv)

\* FairSpec with a change stream that hands out a captured change it holds
\* (stream.Next does not block while a change is available) and a consumer
\* that keeps calling Read.
ReadingSpec ==
  /\ FairSpec
  /\ WF_vars(PendingChange /\ iterateChangeStream)
  /\ WF_vars(ReadCall)

(* ---------------------------------------------------------------------- *)
(* Reference normalisation (spec section 4.1)                              *)
(* ---------------------------------------------------------------------- *)

\* The action of a raw record: "insert" without operationType, else the
\* operationType value as it is.
normalizeAction(raw) ==
  IF "operationType" \in DOMAIN raw THEN raw.operationType ELSE Str("insert")

\* The payload of a raw record: the record itself without operationType, the
\* documentKey of a delete, the fullDocument of anything else.
normalizePayload(raw) ==
  CASE "operationType" \notin DOMAIN raw     -> raw
    [] "operationType" \in DOMAIN raw
       /\ raw.operationType = Str("delete")  -> Lookup(raw, "documentKey")
    [] OTHER                                 -> Lookup(raw, "fullDocument")

\* What read() is to return for a raw record: the encoded payload and the
\* three attributes.
normalized(raw) ==
  [body |-> Marshal(normalizePayload(raw)),
   meta |-> [table  |-> collection,
             schema |-> database,
             event  |-> normalizeAction(raw).val]]

\* The connector has been connected and then closed (Close has returned).
ClosedAfterConnect == client = "disconnected"

\* The pump has hit a fatal iteration error: a decode failure, a cursor
\* error, or stream.Next returning false.
FatalIterationError ==
  \/ panic \in {"cursor.Decode", "cursor.Err", "stream.Decode"}
  \/ pumpPc = "done"

(* ---------------------------------------------------------------------- *)
(* Claims                                                                  *)
(* ---------------------------------------------------------------------- *)

\* C1: in snapshot-then-tail mode the messages returned by Read are, in
\* order and one for one, the normalized records the pump obtained, and the
\* records obtained are all the cursor's documents first and the change
\* stream's events after them: nothing reordered, skipped or repeated.
C1_OrderPreservation ==
  streamSnapshot =>
    /\ Len(delivered) <= Len(fetched)
    /\ \A i \in 1..Len(delivered) :
         /\ delivered[i].msg = normalized(fetched[i].raw)
         /\ delivered[i].src = fetched[i].src
    /\ \A i, j \in 1..Len(fetched) :
         (i < j /\ fetched[i].src = "stream") => fetched[j].src = "stream"

\* C1 witness: a snapshot document and then a tail event have been returned.
C1_Witness ==
  /\ streamSnapshot
  /\ Len(delivered) >= 2
  /\ delivered[1].src = "cursor"
  /\ delivered[Len(delivered)].src = "stream"

\* C2: once Close has returned on a connected connector, a Read that is
\* blocked does not stay blocked for ever.  The claim asks for a terminal
\* signal; here any return of Read counts, and so does the end of the
\* process.
C2_CloseTerminatesRead ==
  (ClosedAfterConnect /\ readPc = "recv")
    ~> (readPc = "idle" \/ ~Running)

\* C3: a second Close after a first one on a connected connector returns no
\* error and does not disconnect the client a second time.
C3_IdempotentClose ==
  /\ disconnects <= 1
  /\ (ClosedAfterConnect /\ closeCalls >= 2) => closeErr = "nil"

\* C4: Close on a connected connector cancels the pump's context and
\* disconnects the client, and a pump blocked in cursor.Next or stream.Next
\* then leaves the fetch and terminates.
C4_CloseCancelsPump ==
  /\ [](ClosedAfterConnect => context = "cancelled")
  /\ (ClosedAfterConnect /\ pumpPc \in {"cursor.Next", "stream.Next"})
       ~> (pumpPc = "done")

\* C5: once Close has returned, no Read returns a message.
C5_NoEventAfterClose ==
  [][ClosedAfterConnect => delivered' = delivered]_vars

\* C6: in tail-only mode the snapshot cursor is never opened and every
\* message returned by Read comes from a change-stream record.
C6_TailOnlySkip ==
  (~streamSnapshot) =>
    /\ cursor = "nil"
    /\ pumpPc \notin {"takeSnapshot", "cursor.Next", "cursor.send"}
    /\ \A i \in 1..Len(fetched) : fetched[i].src = "stream"
    /\ \A i \in 1..Len(delivered) : delivered[i].src = "stream"

\* C6 witness: tail-only mode has returned two messages.
C6_Witness ==
  /\ ~streamSnapshot
  /\ Len(delivered) >= 2

\* C7: every event the pump builds agrees with the reference function on
\* the record it was built from: insert and the record itself without
\* operationType; delete and the documentKey for a delete; otherwise the
\* operationType as it is and the fullDocument.
C7_NormalizationCorrect ==
  /\ Len(pushed) = Len(fetched)
  /\ \A i \in 1..Len(pushed) :
       /\ pushed[i].action = normalizeAction(fetched[i].raw)
       /\ pushed[i].data = normalizePayload(fetched[i].raw)

\* C7 witness: the pump has built an event from a plain document, from a
\* delete envelope that also has a fullDocument, and from another envelope.
C7_Witness ==
  /\ \E i \in 1..Len(fetched) : "operationType" \notin DOMAIN fetched[i].raw
  /\ \E i \in 1..Len(fetched) : fetched[i].raw = EvDelete
  /\ \E i \in 1..Len(fetched) : fetched[i].raw \in {EvUpdate, EvDrop}

\* C8 as stated: every message returned by Read has attributes named
\* collection, database and event, holding the configured collection, the
\* configured database and the normalized action.
C8_AttributesAsStated ==
  \A i \in 1..Len(delivered) :
    /\ {"collection", "database", "event"} \subseteq
         DOMAIN delivered[i].msg.meta
    /\ delivered[i].msg.meta.event = normalizeAction(delivered[i].raw).val

\* C8 amended: every message returned by Read has exactly the attributes
\* table, schema and event; table is the configured collection, schema the
\* configured database and event the normalized action, whatever fields the
\* raw record has.
C8_Attributes ==
  \A i \in 1..Len(delivered) :
    /\ DOMAIN delivered[i].msg.meta = {"table", "schema", "event"}
    /\ delivered[i].msg.meta.table = collection
    /\ delivered[i].msg.meta.schema = database
    /\ delivered[i].msg.meta.event = normalizeAction(delivered[i].raw).val

\* C8 witness: a message has been returned for a record that has its own
\* database and collection fields, different from the configured ones.
C8_Witness ==
  \E i \in 1..Len(delivered) :
    /\ "database" \in DOMAIN delivered[i].raw
    /\ "collection" \in DOMAIN delivered[i].raw
    /\ delivered[i].raw.database # Str(database)
    /\ delivered[i].raw.collection # Str(collection)

\* C9: while the connector is connected, the k-th message returned by Read
\* is built from the k-th event the pump offered on the channel; Read never
\* returns more messages than the pump has offered events.
C9_ReadFifo ==
  client = "connected" =>
    /\ Len(delivered) <= Len(pushed)
    /\ \A k \in 1..Len(delivered) : delivered[k].msg = Message(pushed[k])

\* C9 witness: two different events have been returned by two reads.
C9_Witness ==
  /\ client = "connected"
  /\ Len(delivered) >= 2
  /\ delivered[1].msg # delivered[2].msg

\* C10: after a fatal iteration error no Read returns a message, and a
\* blocked Read does not stay blocked for ever.  The claim asks for a
\* terminal or error signal; here any return of Read counts, and so does the
\* end of the process.
C10_FatalErrorEndsReads ==
  /\ [][FatalIterationError => delivered' = delivered]_vars
  /\ (FatalIterationError /\ readPc = "recv")
       ~> (readPc = "idle" \/ ~Running)

\* C11: a failure to connect or to open a record source (Find, Watch) is
\* returned by Connect as an error; it never panics, neither in Connect nor
\* later on the pump goroutine.
C11_ConnectErrorsReturned ==
  panic \notin {"mongo.Connect", "Connect.Watch",
                "takeSnapshot.Find", "takeSnapshot.Watch"}

\* C15: normalization and delivery never fail: whatever record the pump
\* obtains, the Read that receives its event returns it and does not panic.
C15_TotalDelivery == panic # "Read"

\* C16: a connected, running connector has its pump started, at most one
\* record source is open and iterated at a time, the change stream is
\* opened only once the snapshot cursor has been closed, and at most one
\* send is pending on the channel.
C16_OnePumpOneSource ==
  /\ (client # "nil" /\ Running) => pumpPc # "none"
  /\ Len(stream) <= 1
  /\ ~(cursor = "open" /\ changeStream = "open")
  /\ (streamSnapshot /\ changeStream # "nil") => cursor = "closed"
  /\ (Running /\ pumpPc \in {"cursor.Next", "cursor.send"}) =>
       (cursor = "open" /\ changeStream = "nil")
  /\ pumpPc \in {"stream.Next", "stream.send", "done"} => cursor # "open"

\* C16 witness: in snapshot-then-tail mode the cursor has been drained and
\* closed and the change stream is open and has produced an event.
C16_Witness ==
  /\ streamSnapshot
  /\ cursor = "closed"
  /\ changeStream = "open"
  /\ pumpPc = "stream.send"
  /\ \E i \in 1..Len(fetched) : fetched[i].src = "cursor"

\* C17: once the pump has hit a decode failure or a source error, it stops:
\* no further record is fetched, normalized or pushed, and no record source
\* is opened (a failure in the snapshot scan leaves the change stream
\* unopened).
C17_NoSkipAndContinue ==
  [][FatalIterationError =>
       /\ fetched' = fetched
       /\ pushed' = pushed
       /\ stream' = stream
       /\ pumpPc' = pumpPc
       /\ cursor' = cursor
       /\ changeStream' = changeStream]_vars

\* C17 witness: the snapshot scan has failed after a first record, with the
\* change stream still unopened.
C17_Witness ==
  /\ streamSnapshot
  /\ panic \in {"cursor.Decode", "cursor.Err"}
  /\ Len(pushed) >= 1
  /\ changeStream = "nil"

\* C18: the pump is never more than one event ahead of the consumer: at
\* most one event is pending on the channel, at most one pushed event has
\* not been received by a Read, and while the pump is fetching nothing is
\* pending.
C18_OneAhead ==
  /\ Len(stream) <= 1
  /\ Len(pushed) <= Len(delivered) + 1
  /\ pumpPc \in {"cursor.Next", "stream.Next"} =>
       /\ stream = <<>>
       /\ (Len(pushed) = Len(delivered) \/ panic = "Read")

\* C18 witness: after a first event has been returned, the pump is blocked
\* in the send of the second one.
C18_Witness ==
  /\ Len(delivered) = 1
  /\ Len(pushed) = 2
  /\ Len(stream) = 1
  /\ pumpPc \in {"cursor.send", "stream.send"}

\* C19: once Close has returned on a connected connector the pump issues no
\* Find and no Watch, and it does not end in a panic of takeSnapshot.
C19_NoSourceAfterClose ==
  ClosedAfterConnect =>
    panic \notin {"takeSnapshot.Find", "takeSnapshot.Watch"}

\* C20: Close on a connector that was never connected returns without a
\* panic.
C20_CloseBeforeConnect == panic # "Close.cancelFunc"

C13_NoLossAtHandover ==
  streamSnapshot => \A i \in 1..Len(oplog) : oplog[i].by # "gap"

\* C14: a call of the ack function, with or without an error, returns nil
\* and changes nothing in the connector: channel, pump, sources, client and
\* the messages returned stay as they are, nothing is pushed again.
C14_AckIsNoOp ==
  [][lastAck' # lastAck =>
       /\ lastAck'.result = "nil"
       /\ UNCHANGED <<connVars, pumpVars, readVars, closeVars, panic>>]_vars

\* C14 witness: a returned message has been acknowledged with an error while
\* the pump is blocked sending the next event.
C14_Witness ==
  /\ lastAck = [err |-> "error", result |-> "nil"]
  /\ Len(delivered) = 1
  /\ Len(stream) = 1

====
